---- MODULE Spec2Model ----
(***************************************************************************)
(* Model of the data synchronisation and correlation engine of the sanding *)
(* monitoring web app:                                                     *)
(*   - App.fetchData      (backfill walk over the record store),           *)
(*   - App.fetchVideos    (delta poll merged into the loaded file set),    *)
(*   - RunDataDisplay.getStepVideos (pass/video correlator),               *)
(*   - NotesManager       (save / fetch of pass notes).                    *)
(* Times are small integers standing for Date values; a record without a  *)
(* capture time carries NoTime, an Invalid Date is InvalidDate.            *)
(***************************************************************************)
EXTENDS Integers, Sequences, FiniteSets, TLC

\* ---------------------------------------------------------------- bounds
\* Capture times range over 0..MaxTime.
MaxTime == 2
\* Records in the store when the session starts.
MaxInit == 3
\* Records that arrive in the store during the session.
MaxArrivals == 1
\* Page size of the backfill walk (50 in the source, scaled).
BackfillLimit == 2
\* Page size of one poll (100 in the source, scaled).
PollLimit == 3
\* Polls that may be in flight at the same time.
MaxInFlight == 2
\* Positions of a page at which the store may deliver a record twice.
MaxDup == 1
\* Records that arrive during a session of polls only (more than PollLimit).
MaxBurst == 4

\* ------------------------------------------------------------- sentinels
\* metadata.timeRequested is optional: a record may carry no capture time.
NoTime == -1
\* new Date(Infinity) / new Date(NaN): every comparison with it is false.
InvalidDate == -2
\* `last` before the first page, and a response without continuation token.
NoCursor == 0

Times == 0..MaxTime
\* File names as token sequences: <<stem, extension>>; <<>> is an absent name.
Mp4Name == <<"clip", ".mp4">>
JpgName == <<"frame", ".jpg">>
OctetStream == "application/octet-stream"
Jpeg == "image/jpeg"

Min(a, b) == IF a <= b THEN a ELSE b

VARIABLES
    \* -- record store (external), newest record first
    store,
    \* -- App state
    viamClient,        \* useState viamClient: FALSE is null
    files,             \* useState files (the loaded file set)
    \* -- fetchData (the effect run once on mount)
    pc,                \* "connect" | "passes" | "fetch" | "done" | "failed" | "abort"
    earliestPassTime,  \* line 176
    last,              \* pagination token
    allFiles,          \* accumulator of the walk
    \* -- fetchVideos calls awaiting the store
    polls,
    \* -- history (not program state)
    fetchLen,          \* Len(store) when the walk requested its first page, -1 before
    hist,              \* outcome of the polls so far
    arrived,           \* records that arrived since the session started
    \* -- RunDataDisplay
    videoFiles, step, stepVideos,
    \* -- NotesManager
    notes, ret,
    saved,             \* notes written since the session started
    \* -- PassNotes component
    initialNotes,      \* the initialNotes prop
    shownText          \* useState noteText (the note text shown)

syncVars == <<store, viamClient, files, pc, earliestPassTime, last, allFiles,
              polls, fetchLen, hist, arrived>>
corrVars == <<videoFiles, step, stepVideos>>
notesVars == <<notes, ret, saved, initialNotes, shownText>>
vars == <<store, viamClient, files, pc, earliestPassTime, last, allFiles,
          polls, fetchLen, hist, videoFiles, step, stepVideos, notes, ret, saved,
          initialNotes, shownText>>

\* ------------------------------------------------------------ record store
Ids(seq) == {seq[i].id : i \in 1..Len(seq)}

\* Order.DESCENDING: records that carry a capture time come newest first.
Descending(seq) ==
    \A i, j \in 1..Len(seq) :
        (i < j /\ seq[i].time # NoTime /\ seq[j].time # NoTime)
            => seq[i].time >= seq[j].time

\* The filter of fetchData: { robotId } only.
BackfillFilter(r) == TRUE

\* The filter of fetchVideos: { robotId, mimeType: ["application/octet-stream"] }.
PollFilter(r) == r.mime = OctetStream

\* The records after the one the pagination token names (all of them without token).
AfterCursor(seq, cursor) ==
    IF cursor = NoCursor THEN seq
    ELSE LET at == {i \in 1..Len(seq) : seq[i].id = cursor}
         IN  IF at = {} THEN <<>>
             ELSE SubSeq(seq, (CHOOSE i \in at : TRUE) + 1, Len(seq))

\* At-least-once delivery: the record at position d of the page is delivered twice.
Redeliver(page, d) ==
    IF d = 0 \/ d > Len(page) THEN page
    ELSE SubSeq(page, 1, d) \o SubSeq(page, d, Len(page))

\* binaryDataByFilter(filter, limit, DESCENDING, last): one page and its token.
\* A page that reaches the end of the data comes with a token or without one
\* (endToken); an empty page comes without.
BinaryDataByFilter(matching, limit, cursor, d, endToken) ==
    LET rest == AfterCursor(matching, cursor)
        page == SubSeq(rest, 1, Min(limit, Len(rest)))
    IN  [data |-> Redeliver(page, d),
         last |-> IF page = <<>> THEN NoCursor
                  ELSE IF Len(rest) > limit \/ endToken THEN page[Len(page)].id
                  ELSE NoCursor]

\* ------------------------------------------------------------ fetchVideos
\* Mutants of the updater: one returns the new files alone, one does not filter
\* the response against the identifiers already loaded.
MergeFiles_Replace(prevFiles, data) ==
    LET existingIds == Ids(prevFiles)
        newFiles == SelectSeq(data, LAMBDA f : f.id \notin existingIds)
    IN  IF Len(newFiles) > 0 THEN newFiles ELSE prevFiles

MergeFiles_NoDedup(prevFiles, data) ==
    IF Len(data) > 0 THEN data \o prevFiles ELSE prevFiles

\* Mutant: only the first new file of the response is merged.
MergeFiles_FirstOnly(prevFiles, data) ==
    LET existingIds == Ids(prevFiles)
        newFiles == SelectSeq(data, LAMBDA f : f.id \notin existingIds)
    IN  IF Len(newFiles) > 0 THEN <<newFiles[1]>> \o prevFiles ELSE prevFiles

\* Mutant: the new files are put after the files already loaded.
MergeFiles_Append(prevFiles, data) ==
    LET existingIds == Ids(prevFiles)
        newFiles == SelectSeq(data, LAMBDA f : f.id \notin existingIds)
    IN  IF Len(newFiles) > 0 THEN prevFiles \o newFiles ELSE prevFiles

\* The updater passed to setFiles (lines 75-87).
MergeFiles(prevFiles, data) ==
    LET existingIds == Ids(prevFiles)
        newFiles == SelectSeq(data, LAMBDA f : f.id \notin existingIds)
    IN  IF Len(newFiles) > 0 THEN newFiles \o prevFiles ELSE prevFiles

RemoveAt(seq, i) == SubSeq(seq, 1, i - 1) \o SubSeq(seq, i + 1, Len(seq))

\* Mutant: the poll asks the store for one record less.
PollStart_ShortPage(d) ==
    /\ IF ~viamClient
       THEN UNCHANGED polls
       ELSE /\ Len(polls) < MaxInFlight
            /\ LET data == BinaryDataByFilter(SelectSeq(store, PollFilter),
                                              PollLimit - 1, NoCursor, d, FALSE).data
                   shares(p) == Ids(p.data) \cap Ids(data) # {}
               IN  polls' = Append(
                        [i \in 1..Len(polls) |->
                            [polls[i] EXCEPT !.overlap = @ \/ shares(polls[i])]],
                        [data |-> data,
                         ver |-> Len(store),
                         overlap |-> \E i \in 1..Len(polls) : shares(polls[i])])
    /\ UNCHANGED <<store, viamClient, files, pc, earliestPassTime, last,
                   allFiles, fetchLen, hist, arrived>>
    /\ UNCHANGED <<corrVars, notesVars>>

\* fetchVideos up to its await (lines 53-72): returns at once without client.
\* History kept with a call in flight: ver, the size of the store at the
\* request; overlap, whether it has been in flight together with another call
\* whose response shares a record with its own.
PollStart(d) ==
    /\ IF ~viamClient
       THEN UNCHANGED polls
       ELSE /\ Len(polls) < MaxInFlight
            /\ LET data == BinaryDataByFilter(SelectSeq(store, PollFilter),
                                              PollLimit, NoCursor, d, FALSE).data
                   shares(p) == Ids(p.data) \cap Ids(data) # {}
               IN  polls' = Append(
                        [i \in 1..Len(polls) |->
                            [polls[i] EXCEPT !.overlap = @ \/ shares(polls[i])]],
                        [data |-> data,
                         ver |-> Len(store),
                         overlap |-> \E i \in 1..Len(polls) : shares(polls[i])])
    /\ UNCHANGED <<store, viamClient, files, pc, earliestPassTime, last,
                   allFiles, fetchLen, hist, arrived>>
    /\ UNCHANGED <<corrVars, notesVars>>

\* The store answers poll i: the rest of fetchVideos (lines 75-87).
PollResolve(i) ==
    /\ i \in 1..Len(polls)
    /\ files' = MergeFiles(files, polls[i].data)
    /\ polls' = RemoveAt(polls, i)
    /\ hist' = [ver |-> polls[i].ver,
                out |-> IF files' # files THEN "merged"
                        ELSE IF polls[i].ver = hist.ver THEN "again" ELSE "same"]
    /\ UNCHANGED <<store, viamClient, pc, earliestPassTime, last, allFiles, fetchLen, arrived>>
    /\ UNCHANGED <<corrVars, notesVars>>

\* The store query of poll i fails: the await at line 64 throws.
PollReject(i) ==
    /\ i \in 1..Len(polls)
    /\ polls' = RemoveAt(polls, i)
    /\ hist' = [hist EXCEPT !.out = "failed"]
    /\ UNCHANGED <<store, viamClient, files, pc, earliestPassTime, last,
                   allFiles, fetchLen, arrived>>
    /\ UNCHANGED <<corrVars, notesVars>>

\* -------------------------------------------------------------- fetchData
\* connect() and setViamClient (lines 99-100); connect may throw.
Connect(ok) ==
    /\ pc = "connect"
    /\ IF ok THEN viamClient' = TRUE /\ pc' = "passes"
             ELSE viamClient' = viamClient /\ pc' = "failed"
    /\ UNCHANGED <<store, files, earliestPassTime, last, allFiles, polls,
                   fetchLen, hist, arrived>>
    /\ UNCHANGED <<corrVars, notesVars>>

\* new Date(Math.min(...processedPasses.map(p => p.start.getTime()))) (line 176).
EarliestPassTime(starts) ==
    IF starts = {} THEN InvalidDate
    ELSE CHOOSE t \in starts : \A u \in starts : t <= u

\* Lines 113-178: organizations, the tabular query, the passes.
\* orgs is organizations.length, starts the start times of the passes.
LoadPasses(orgs, tabularOk, starts) ==
    /\ pc = "passes"
    /\ IF orgs # 1 THEN
            pc' = "abort" /\ UNCHANGED <<earliestPassTime, last, allFiles>>
       ELSE IF ~tabularOk THEN
            pc' = "failed" /\ UNCHANGED <<earliestPassTime, last, allFiles>>
       ELSE /\ pc' = "fetch"
            /\ earliestPassTime' = EarliestPassTime(starts)
            /\ last' = NoCursor
            /\ allFiles' = <<>>
    /\ UNCHANGED <<store, viamClient, files, polls, fetchLen, hist, arrived>>
    /\ UNCHANGED <<corrVars, notesVars>>

\* Mutant: the boundary of an empty pass list compares as the number Math.min()
\* gives, Infinity, and every capture time is earlier than it.
DateBefore_Infinity(a, b) == a # InvalidDate /\ (b = InvalidDate \/ a < b)

\* oldestFileTime < earliestPassTime on Dates (line 195).
DateBefore(a, b) == a # InvalidDate /\ b # InvalidDate /\ a < b

\* binaryData.data[binaryData.data.length - 1]?.metadata?.timeRequested?.toDate()
OldestFileTime(data) == IF data = <<>> THEN NoTime ELSE data[Len(data)].time

\* The break condition of the walk (line 195).
StopWalk(resp, earliest) ==
    \/ resp.last = NoCursor
    \/ OldestFileTime(resp.data) = NoTime
    \/ DateBefore(OldestFileTime(resp.data), earliest)

\* One iteration of the loop (lines 179-199) and, when it breaks, setFiles (201).
FetchPage(d, endToken) ==
    /\ pc = "fetch"
    /\ LET binaryData == BinaryDataByFilter(SelectSeq(store, BackfillFilter),
                                            BackfillLimit, last, d, endToken)
       IN  IF StopWalk(binaryData, earliestPassTime)
           THEN \* break, setFiles(allFiles); the locals of fetchData are gone
                /\ files' = allFiles \o binaryData.data
                /\ pc' = "done"
                /\ allFiles' = <<>>
                /\ last' = NoCursor
                /\ earliestPassTime' = InvalidDate
                /\ hist' = [ver |-> -1, out |-> "none"]
           ELSE /\ allFiles' = allFiles \o binaryData.data
                /\ last' = binaryData.last
                /\ UNCHANGED <<files, pc, hist, earliestPassTime>>
    /\ fetchLen' = IF fetchLen = -1 THEN Len(store) ELSE fetchLen
    /\ UNCHANGED <<store, viamClient, polls, arrived>>
    /\ UNCHANGED <<corrVars, notesVars>>

\* Mutant: the pages accumulated so far are committed when a request fails.
FetchPageFail_CommitPartial ==
    /\ pc = "fetch"
    /\ pc' = "failed"
    /\ files' = allFiles
    /\ allFiles' = <<>>
    /\ last' = NoCursor
    /\ earliestPassTime' = InvalidDate
    /\ UNCHANGED <<store, viamClient, polls, fetchLen, hist, arrived>>
    /\ UNCHANGED <<corrVars, notesVars>>

\* A page request fails: the await at line 181 throws, fetchData ends.
FetchPageFail ==
    /\ pc = "fetch"
    /\ pc' = "failed"
    /\ allFiles' = <<>>
    /\ last' = NoCursor
    /\ earliestPassTime' = InvalidDate
    /\ UNCHANGED <<store, viamClient, files, polls, fetchLen, hist, arrived>>
    /\ UNCHANGED <<corrVars, notesVars>>

\* ------------------------------------------------------------ environment
\* A record kind: a video (.mp4, octet-stream) or a camera frame (.jpg).
VideoKind == <<Mp4Name, OctetStream>>
FrameKind == <<JpgName, Jpeg>>
Kinds == {VideoKind, FrameKind}

Rec(id, t, k) == [id |-> id, time |-> t, fileName |-> k[1], mime |-> k[2]]

\* The robot uploads a record, captured now (MaxTime, the latest instant):
\* the store is append-only. At most max records arrive in a session.
Arrival(k, max) ==
    /\ arrived < max
    /\ arrived' = arrived + 1
    /\ store' = <<Rec(Len(store) + 1, MaxTime, k)>> \o store
    /\ UNCHANGED <<viamClient, files, pc, earliestPassTime, last, allFiles,
                   polls, fetchLen, hist>>
    /\ UNCHANGED <<corrVars, notesVars>>

Arrive(k) == Arrival(k, MaxArrivals)
ArriveBurst(k) == Arrival(k, MaxBurst)

\* --------------------------------------------------------- RunDataDisplay
\* Video files handed to RunDataDisplay (the videoFiles prop).
MaxVideos == 2

\* String.prototype.endsWith on a tokenised file name; an absent name has none.
EndsWith(name, suffix) == Len(name) > 0 /\ name[Len(name)] = suffix

\* a >= b and a <= b on Dates: false as soon as one of them is invalid.
DateGE(a, b) == a # InvalidDate /\ b # InvalidDate /\ a >= b
DateLE(a, b) == a # InvalidDate /\ b # InvalidDate /\ a <= b

\* Mutant: the end of the step is exclusive.
getStepVideos_ExclusiveEnd(st, props) ==
    IF ~props.defined THEN <<>>
    ELSE SelectSeq(props.list, LAMBDA file :
            IF file.time = NoTime \/ ~EndsWith(file.fileName, ".mp4") THEN FALSE
            ELSE DateGE(file.time, st.start) /\ DateLE(file.time, st.end)
                    /\ file.time # st.end)

\* getStepVideos (lines 91-102); props is [defined, list]: the prop is optional.
getStepVideos(st, props) ==
    IF ~props.defined THEN <<>>
    ELSE LET stepStart == st.start
             stepEnd == st.end
         IN  SelectSeq(props.list, LAMBDA file :
                 IF file.time = NoTime \/ ~EndsWith(file.fileName, ".mp4") THEN FALSE
                 ELSE DateGE(file.time, stepStart) /\ DateLE(file.time, stepEnd))

\* A step is rendered: its videos are computed from the current prop.
RenderStep(st) ==
    /\ step' = st
    /\ stepVideos' = getStepVideos(st, videoFiles)
    /\ UNCHANGED videoFiles
    /\ UNCHANGED <<syncVars, notesVars>>

\* ----------------------------------------------------------- NotesManager
\* Note records in the store when the session starts.
MaxNotes == 3
\* Notes saved during the session.
MaxSaves == 1
\* Result cap of fetchPassNotes (100 in the source, scaled).
NotesLimit == 2
\* Result cap of fetchNotesForPasses (500 in the source, scaled).
ManyLimit == 3
\* Client clock values.
MaxClock == 1

PassIds == {"p1", "p2"}
Texts == {"", "sanded twice"}
PartIds == {"", "part-1"}
\* Date.prototype.toISOString, and its inverse new Date(s).getTime().
IsoStrings == <<"1970-01-01T00:00:00.000Z", "1970-01-01T00:00:00.001Z",
                "1970-01-01T00:00:00.002Z", "1970-01-01T00:00:00.003Z">>
ToISOString(t) == IsoStrings[t + 1]
\* new Date(s).getTime(): the instant an ISO string names, NaN for another string.
GetTime(s) ==
    IF \E i \in 1..Len(IsoStrings) : IsoStrings[i] = s
    THEN (CHOOSE i \in 1..Len(IsoStrings) : IsoStrings[i] = s) - 1
    ELSE InvalidDate

\* Mutant: an empty note_text is left out of the text, as an absent value is.
Encode_DropEmpty(noteData) ==
    IF noteData.note_text = ""
    THEN <<"{", "pass_id", noteData.pass_id,
           "created_at", noteData.created_at, "created_by", noteData.created_by, "}">>
    ELSE <<"{", "pass_id", noteData.pass_id, "note_text", noteData.note_text,
           "created_at", noteData.created_at, "created_by", noteData.created_by, "}">>

\* JSON.stringify(noteData) followed by TextEncoder.encode: the token text.
Encode(noteData) ==
    <<"{", "pass_id", noteData.pass_id, "note_text", noteData.note_text,
      "created_at", noteData.created_at, "created_by", noteData.created_by, "}">>

\* Whether JSON.parse accepts the decoded text: an object of key/value pairs.
JsonValid(bytes) ==
    /\ Len(bytes) >= 2
    /\ bytes[1] = "{"
    /\ bytes[Len(bytes)] = "}"
    /\ Len(bytes) % 2 = 0

\* JSON.parse of a valid text: the object, a later key overriding an earlier one.
JsonParse(bytes) ==
    LET n == (Len(bytes) - 2) \div 2
        keys == {bytes[2 * i] : i \in 1..n}
    IN  [k \in keys |->
            bytes[2 * (CHOOSE i \in 1..n :
                          /\ bytes[2 * i] = k
                          /\ \A j \in 1..n : bytes[2 * j] = k => j <= i) + 1]]

\* noteData.pass_id of a parsed object; "undefined" when the key is absent.
PassIdOf(obj) == IF "pass_id" \in DOMAIN obj THEN obj["pass_id"] ELSE "undefined"

\* new Date(note.created_at).getTime() of a parsed object.
CreatedAtOf(obj) ==
    IF "created_at" \in DOMAIN obj THEN GetTime(obj["created_at"]) ELSE InvalidDate

\* The note a save builds (lines 35-40).
NoteData(passId, noteText, now) ==
    [pass_id |-> passId, note_text |-> noteText,
     created_at |-> ToISOString(now), created_by |-> "web-app"]

\* binaryDataByFilter on the note records: the newest `limit` of them.
NotesQuery(limit) == SubSeq(notes, 1, Min(limit, Len(notes)))

\* Mutant: partId is checked after the upload instead of before it.
SaveOutcome_LateCheck(client, passId, noteText, partId, now, uploadOk) ==
    IF ~client THEN
        [status |-> "error", called |-> FALSE, written |-> <<>>]
    ELSE IF ~uploadOk THEN
        [status |-> "error", called |-> TRUE, written |-> <<>>]
    ELSE IF partId = "" THEN
        [status |-> "error", called |-> TRUE,
         written |-> <<Encode(NoteData(passId, noteText, now))>>]
    ELSE
        [status |-> "ok", called |-> TRUE,
         written |-> <<Encode(NoteData(passId, noteText, now))>>]

\* Mutant: an empty note text is refused.
SaveOutcome_RejectEmpty(client, passId, noteText, partId, now, uploadOk) ==
    IF ~client THEN
        [status |-> "error", called |-> FALSE, written |-> <<>>]
    ELSE IF partId = "" \/ noteText = "" THEN
        [status |-> "error", called |-> FALSE, written |-> <<>>]
    ELSE IF ~uploadOk THEN
        [status |-> "error", called |-> TRUE, written |-> <<>>]
    ELSE
        [status |-> "ok", called |-> TRUE,
         written |-> <<Encode(NoteData(passId, noteText, now))>>]

\* savePassNote (lines 22-59): what it throws or uploads.
\*   called: binaryDataCaptureUpload was called; written: the record it stored.
SaveOutcome(client, passId, noteText, partId, now, uploadOk) ==
    IF ~client THEN
        [status |-> "error", called |-> FALSE, written |-> <<>>]
    ELSE IF partId = "" THEN
        [status |-> "error", called |-> FALSE, written |-> <<>>]
    ELSE IF ~uploadOk THEN
        [status |-> "error", called |-> TRUE, written |-> <<>>]
    ELSE
        [status |-> "ok", called |-> TRUE,
         written |-> <<Encode(NoteData(passId, noteText, now))>>]

SaveStep(op, passId, noteText, partId, now, uploadOk) ==
    LET o == SaveOutcome(viamClient, passId, noteText, partId, now, uploadOk)
    IN  /\ Len(o.written) > 0 => saved < MaxSaves
        /\ saved' = saved + Len(o.written)
        /\ notes' = o.written \o notes
        /\ ret' = [op |-> op, passId |-> passId, partId |-> partId,
                   status |-> o.status, called |-> o.called,
                   storeError |-> IF o.called /\ ~uploadOk THEN "upload" ELSE "none",
                   value |-> <<>>]
        /\ UNCHANGED <<initialNotes, shownText>>
        /\ UNCHANGED <<syncVars, corrVars>>

SavePassNote(passId, noteText, partId, now, uploadOk) ==
    SaveStep("savePassNote", passId, noteText, partId, now, uploadOk)

\* updatePassNote (lines 183-186): a plain save.
UpdatePassNote(passId, noteText, partId, now, uploadOk) ==
    SaveStep("updatePassNote", passId, noteText, partId, now, uploadOk)

\* What binaryDataByIds does for one record: it answers with the payload, throws,
\* answers with an empty array, or answers with an item that has no binary.
PayloadOutcomes == {"ok", "throws", "empty", "nobinary"}
\* The outcomes of the payload fetches of one call: at most one is not "ok".
OutcomeVectors(n) ==
    {[i \in 1..n |-> "ok"]} \cup
    {[i \in 1..n |-> IF i = k THEN o ELSE "ok"] :
        k \in 1..n, o \in PayloadOutcomes \ {"ok"}}

\* History: what the store did wrong during a fetch. "query": the filtered query
\* failed; "payload": a payload fetch threw; "missing": a payload fetch answered
\* without payload; "none" otherwise.
StoreError(client, queryOk, outcomes, n) ==
    IF ~client THEN "none"
    ELSE IF ~queryOk THEN "query"
    ELSE IF \E i \in 1..n : outcomes[i] = "throws" THEN "payload"
    ELSE IF \E i \in 1..n : outcomes[i] # "ok" THEN "missing"
    ELSE "none"

\* One pass of the loop body of fetchPassNotes (lines 90-114): the notes to push.
\* Everything thrown inside the try, by the store or by JSON.parse, is caught.
PassNoteOf(payload, outcome, passId) ==
    IF outcome # "ok" THEN <<>>
    ELSE IF ~JsonValid(payload) THEN <<>>
    ELSE IF PassIdOf(JsonParse(payload)) = passId THEN <<JsonParse(payload)>>
    ELSE <<>>

\* Mutant: the first payload that fails to decode ends the loop.
RECURSIVE CollectPassNotes_AbortOnCorrupt(_, _, _, _)
CollectPassNotes_AbortOnCorrupt(data, outcomes, passId, i) ==
    IF i > Len(data) THEN <<>>
    ELSE IF outcomes[i] = "ok" /\ ~JsonValid(data[i]) THEN <<>>
    ELSE PassNoteOf(data[i], outcomes[i], passId)
            \o CollectPassNotes_AbortOnCorrupt(data, outcomes, passId, i + 1)

RECURSIVE CollectPassNotes(_, _, _, _)
CollectPassNotes(data, outcomes, passId, i) ==
    IF i > Len(data) THEN <<>>
    ELSE PassNoteOf(data[i], outcomes[i], passId)
            \o CollectPassNotes(data, outcomes, passId, i + 1)

\* fetchPassNotes (lines 64-119).
FetchPassNotesOutcome(client, passId, queryOk, outcomes) ==
    IF ~client THEN [status |-> "error", value |-> <<>>]
    ELSE IF ~queryOk THEN [status |-> "error", value |-> <<>>]
    ELSE [status |-> "ok",
          value |-> CollectPassNotes(NotesQuery(NotesLimit), outcomes, passId, 1)]

FetchPassNotes(passId, queryOk, outcomes) ==
    LET o == FetchPassNotesOutcome(viamClient, passId, queryOk, outcomes)
        n == Len(NotesQuery(NotesLimit))
    IN  /\ ret' = [op |-> "fetchPassNotes", passId |-> passId, partId |-> "",
                   status |-> o.status, called |-> FALSE,
                   storeError |-> StoreError(viamClient, queryOk, outcomes, n),
                   value |-> o.value]
        /\ UNCHANGED <<notes, saved, initialNotes, shownText>>
        /\ UNCHANGED <<syncVars, corrVars>>

\* The bucket a loop pass of fetchNotesForPasses pushes its note to ("" for none).
BucketOf(payload, outcome, passIds) ==
    IF outcome # "ok" THEN ""
    ELSE IF ~JsonValid(payload) THEN ""
    ELSE IF PassIdOf(JsonParse(payload)) \in passIds
         THEN PassIdOf(JsonParse(payload))
    ELSE ""

RECURSIVE CollectBucket(_, _, _, _, _)
CollectBucket(data, outcomes, passIds, key, i) ==
    IF i > Len(data) THEN <<>>
    ELSE (IF BucketOf(data[i], outcomes[i], passIds) = key
          THEN <<JsonParse(data[i])>> ELSE <<>>)
            \o CollectBucket(data, outcomes, passIds, key, i + 1)

\* Mutant: a bucket exists only for the ids that a note was pushed to.
FetchNotesForPassesOutcome_NoInit(client, passIds, queryOk, outcomes) ==
    IF ~client THEN [status |-> "error", value |-> <<>>]
    ELSE IF ~queryOk THEN [status |-> "error", value |-> <<>>]
    ELSE [status |-> "ok",
          value |-> [k \in {q \in passIds :
                              CollectBucket(NotesQuery(ManyLimit), outcomes,
                                            passIds, q, 1) # <<>>} |->
                        CollectBucket(NotesQuery(ManyLimit), outcomes, passIds, k, 1)]]

\* fetchNotesForPasses (lines 124-178): the Map, one bucket per requested id.
FetchNotesForPassesOutcome(client, passIds, queryOk, outcomes) ==
    IF ~client THEN [status |-> "error", value |-> <<>>]
    ELSE IF ~queryOk THEN [status |-> "error", value |-> <<>>]
    ELSE [status |-> "ok",
          value |-> [k \in passIds |->
                        CollectBucket(NotesQuery(ManyLimit), outcomes, passIds, k, 1)]]

FetchNotesForPasses(passIds, queryOk, outcomes) ==
    LET o == FetchNotesForPassesOutcome(viamClient, passIds, queryOk, outcomes)
        n == Len(NotesQuery(ManyLimit))
    IN  /\ ret' = [op |-> "fetchNotesForPasses", passId |-> passIds, partId |-> "",
                   status |-> o.status, called |-> FALSE,
                   storeError |-> StoreError(viamClient, queryOk, outcomes, n),
                   value |-> o.value]
        /\ UNCHANGED <<notes, saved, initialNotes, shownText>>
        /\ UNCHANGED <<syncVars, corrVars>>

\* -------------------------------------------------------------- PassNotes
\* note.note_text of a parsed object; "undefined" when the key is absent.
NoteTextOf(obj) == IF "note_text" \in DOMAIN obj THEN obj["note_text"] ELSE "undefined"

\* The comparator of the sort (lines 33-35): negative when a goes before b.
\* A NaN result counts as 0.
CompareNotes(a, b) ==
    IF CreatedAtOf(a) = InvalidDate \/ CreatedAtOf(b) = InvalidDate THEN 0
    ELSE CreatedAtOf(b) - CreatedAtOf(a)

\* x is put before the first element that has to come after it.
InsertNote(x, sorted) ==
    LET after == {k \in 1..Len(sorted) : CompareNotes(sorted[k], x) > 0}
    IN  IF after = {} THEN Append(sorted, x)
        ELSE LET k == CHOOSE m \in after : \A n \in after : m <= n
             IN  SubSeq(sorted, 1, k - 1) \o <<x>> \o SubSeq(sorted, k, Len(sorted))

\* [...initialNotes].sort(comparator): Array.prototype.sort is stable.
RECURSIVE SortNotes(_)
SortNotes(seq) ==
    IF seq = <<>> THEN <<>>
    ELSE InsertNote(seq[Len(seq)], SortNotes(SubSeq(seq, 1, Len(seq) - 1)))

\* Mutant: the first note of the prop is taken without sorting.
LatestNoteText_NoSort(prop) ==
    IF Len(prop) > 0 THEN NoteTextOf(prop[1]) ELSE ""

\* The text the effect shows (lines 32-42).
LatestNoteText(prop) ==
    IF Len(prop) > 0
    THEN LET sortedNotes == SortNotes(prop)
         IN  NoteTextOf(sortedNotes[1])
    ELSE ""

\* The notes the parent hands over as initialNotes: those of a pass, as the last
\* fetch returned them (lines 65-70).
FetchedNotes ==
    IF ret.status # "ok" THEN {}
    ELSE IF ret.op = "fetchPassNotes" THEN {ret.value}
    ELSE IF ret.op = "fetchNotesForPasses" THEN {ret.value[k] : k \in ret.passId}
    ELSE {}

\* The effect on initialNotes (lines 31-43).
PassNotesEffect(prop) ==
    /\ initialNotes' = prop
    /\ shownText' = LatestNoteText(prop)
    /\ UNCHANGED <<notes, ret, saved>>
    /\ UNCHANGED <<syncVars, corrVars>>

\* --------------------------------------------------------- specifications
\* The stores a session may start with: at most n records, newest first.
InitStores ==
    UNION {{[i \in 1..n |-> Rec(n - i + 1, f[i][1], f[i][2])] :
                f \in [1..n -> (Times \cup {NoTime}) \X {VideoKind}]} : n \in 0..MaxInit}

\* The payloads a note record may hold: a note of this app, or a corrupt text.
CorruptPayload == <<"{", "pass_id">>
InitPayloads ==
    {Encode(NoteData("p1", "sanded twice", c)) : c \in 0..MaxClock}
        \cup {Encode(NoteData("p2", "sanded twice", 0)), CorruptPayload}
InitNotes == UNION {[1..n -> InitPayloads] : n \in 0..MaxNotes}

\* The videoFiles prop: absent, or at most MaxVideos records.
FileNames == {Mp4Name, JpgName, <<>>}
InitProps ==
    {[defined |-> FALSE, list |-> <<>>]} \cup
    UNION {{[defined |-> TRUE,
             list |-> [i \in 1..n |-> [id |-> n - i + 1, time |-> f[i][1],
                                       fileName |-> f[i][2], mime |-> OctetStream]]] :
                f \in [1..n -> (Times \cup {NoTime}) \X FileNames]} : n \in 0..MaxVideos}
Steps == [start : Times \cup {InvalidDate}, end : Times \cup {InvalidDate}]

NoRet == [op |-> "none", passId |-> "", partId |-> "", status |-> "ok",
          called |-> FALSE, storeError |-> "none", value |-> <<>>]

SyncIdle ==
    /\ viamClient = FALSE
    /\ files = <<>>
    /\ pc = "connect"
    /\ earliestPassTime = InvalidDate
    /\ last = NoCursor
    /\ allFiles = <<>>
    /\ polls = <<>>
    /\ fetchLen = -1
    /\ hist = [ver |-> -1, out |-> "none"]
    /\ arrived = 0
NoStep == [start |-> InvalidDate, end |-> InvalidDate]
CorrIdle ==
    /\ videoFiles = [defined |-> FALSE, list |-> <<>>]
    /\ step = NoStep
    /\ stepVideos = <<>>
NotesIdle ==
    /\ notes = <<>>
    /\ ret = NoRet
    /\ saved = 0
    /\ initialNotes = <<>>
    /\ shownText = ""

\* -- the file synchronisation: fetchData, fetchVideos and the store
Init ==
    /\ store \in {s \in InitStores : Descending(s)}
    /\ SyncIdle
    /\ CorrIdle
    /\ NotesIdle

Next ==
    \/ \E ok \in BOOLEAN : Connect(ok)
    \/ \E orgs \in 0..1, tabularOk \in BOOLEAN, starts \in SUBSET Times :
            LoadPasses(orgs, tabularOk, starts)
    \/ \E d \in 0..MaxDup, endToken \in BOOLEAN : FetchPage(d, endToken)
    \/ FetchPageFail
    \/ \E d \in 0..MaxDup : PollStart(d)
    \/ \E i \in 1..MaxInFlight : PollResolve(i)
    \/ \E i \in 1..MaxInFlight : PollReject(i)
    \/ \E k \in Kinds : Arrive(k)

Spec == Init /\ [][Next]_vars

\* -- the polls alone: fetchVideos after a walk that loaded the whole store
InitPoll ==
    /\ store \in {s \in InitStores : Len(s) <= 1}
    /\ viamClient = TRUE
    /\ files = store
    /\ pc = "done"
    /\ earliestPassTime = InvalidDate
    /\ last = NoCursor
    /\ allFiles = <<>>
    /\ polls = <<>>
    /\ fetchLen = Len(store)
    /\ hist = [ver |-> -1, out |-> "none"]
    /\ arrived = 0
    /\ CorrIdle
    /\ NotesIdle

NextPoll ==
    \/ \E d \in 0..MaxDup : PollStart(d)
    \/ \E i \in 1..MaxInFlight : PollResolve(i)
    \/ \E i \in 1..MaxInFlight : PollReject(i)
    \/ \E k \in Kinds : ArriveBurst(k)

SpecPoll == InitPoll /\ [][NextPoll]_vars

\* -- the correlator: RunDataDisplay over every videoFiles prop
InitCorr ==
    /\ store = <<>>
    /\ SyncIdle
    /\ videoFiles \in InitProps
    /\ step = NoStep
    /\ stepVideos = <<>>
    /\ NotesIdle

NextCorr == \E st \in Steps : RenderStep(st)

SpecCorr == InitCorr /\ [][NextCorr]_vars

\* -- the notes: NotesManager over every note store
\* <<now, uploadOk>> of a save: without partId nothing is uploaded, and a failed
\* upload stores nothing, so the inputs those paths never read are not drawn.
SaveInputs(part) ==
    IF part = "" THEN {<<0, TRUE>>}
    ELSE {<<now, TRUE>> : now \in 0..MaxClock} \cup {<<0, FALSE>>}

\* No payload is fetched after a failed query: its outcomes are not drawn.
FetchInputs(queryOk, n) ==
    IF queryOk THEN OutcomeVectors(n) ELSE {[i \in 1..n |-> "ok"]}

InitNotesSpec ==
    /\ store = <<>>
    /\ files = <<>>
    /\ pc = "connect"
    /\ earliestPassTime = InvalidDate
    /\ last = NoCursor
    /\ allFiles = <<>>
    /\ polls = <<>>
    /\ fetchLen = -1
    /\ hist = [ver |-> -1, out |-> "none"]
    /\ arrived = 0
    /\ viamClient \in BOOLEAN
    /\ CorrIdle
    /\ notes \in InitNotes
    /\ ret = NoRet
    /\ saved = 0
    /\ initialNotes = <<>>
    /\ shownText = ""

NextNotes ==
    \/ \E p \in PassIds, t \in Texts, part \in PartIds :
          \E in \in SaveInputs(part) : SavePassNote(p, t, part, in[1], in[2])
    \/ \E p \in PassIds, t \in Texts, part \in PartIds :
          \E in \in SaveInputs(part) : UpdatePassNote(p, t, part, in[1], in[2])
    \/ \E p \in PassIds, queryOk \in BOOLEAN :
          \E outcomes \in FetchInputs(queryOk, Len(NotesQuery(NotesLimit))) :
            FetchPassNotes(p, queryOk, outcomes)
    \/ \E ps \in SUBSET PassIds, queryOk \in BOOLEAN :
          \E outcomes \in FetchInputs(queryOk, Len(NotesQuery(ManyLimit))) :
            FetchNotesForPasses(ps, queryOk, outcomes)

SpecNotes == InitNotesSpec /\ [][NextNotes]_vars

\* -- the note shown: PassNotes over the notes that fetches return
\* The notes the store may start with: two texts, written at any clock value.
ShowPayloads ==
    {Encode(NoteData("p1", t, c)) : t \in Texts, c \in 0..MaxClock}
        \cup {Encode(NoteData("p2", "sanded twice", 0))}

InitShow ==
    /\ store = <<>>
    /\ files = <<>>
    /\ pc = "connect"
    /\ earliestPassTime = InvalidDate
    /\ last = NoCursor
    /\ allFiles = <<>>
    /\ polls = <<>>
    /\ fetchLen = -1
    /\ hist = [ver |-> -1, out |-> "none"]
    /\ arrived = 0
    /\ viamClient = TRUE
    /\ CorrIdle
    /\ notes \in UNION {[1..n -> ShowPayloads] : n \in 0..MaxNotes}
    /\ ret = NoRet
    /\ saved = 0
    /\ initialNotes = <<>>
    /\ shownText = ""

NextShow ==
    \/ \E p \in PassIds, t \in Texts, now \in 0..MaxClock :
            SavePassNote(p, t, "part-1", now, TRUE)
    \/ \E p \in PassIds, queryOk \in BOOLEAN :
            FetchPassNotes(p, queryOk, [i \in 1..Len(NotesQuery(NotesLimit)) |-> "ok"])
    \/ \E ps \in SUBSET PassIds, queryOk \in BOOLEAN :
            FetchNotesForPasses(ps, queryOk, [i \in 1..Len(NotesQuery(ManyLimit)) |-> "ok"])
    \/ \E prop \in FetchedNotes : PassNotesEffect(prop)

SpecShow == InitShow /\ [][NextShow]_vars

\* ================================================================ claims
\* The records of the store when the walk requested its first page: a record's
\* id is its arrival rank, and the store is append-only.
FetchTime(len) == {store[i] : i \in {j \in 1..Len(store) : store[j].id <= len}}

\* The step on which the walk breaks and commits.
WalkCommits == pc = "fetch" /\ pc' = "done"

\* C1: when the backfill walk completes without store error, the set it commits
\* holds every record that was in the store at fetch time with a capture time
\* >= T_min (the earliest pass start), whatever the store and the page split,
\* pages whose oldest record has no capture time included.
C1_BackfillComplete ==
    [][(WalkCommits /\ earliestPassTime # InvalidDate) =>
        \A r \in FetchTime(fetchLen') :
            (r.time # NoTime /\ r.time >= earliestPassTime) => r.id \in Ids(files')]_vars

\* C2: with T_min earlier than the earliest record, the set the walk returns has
\* a minimum capture time <= T_min or covers all the records available.
C2_BackfillReachesBoundary ==
    [][(/\ WalkCommits
        /\ earliestPassTime # InvalidDate
        /\ \A r \in FetchTime(fetchLen') :
                r.time # NoTime => earliestPassTime < r.time) =>
        \/ \E i \in 1..Len(files') :
                files'[i].time # NoTime /\ files'[i].time <= earliestPassTime
        \/ \A r \in FetchTime(fetchLen') : r.id \in Ids(files')]_vars

\* A step of fetchVideos: its call, its merge, or its failure.
PollStep ==
    \/ \E d \in 0..MaxDup : PollStart(d)
    \/ \E i \in 1..MaxInFlight : PollResolve(i)
    \/ \E i \in 1..MaxInFlight : PollReject(i)

\* C3: over every poll, successful or failing, the number of loaded records does
\* not decrease and every identifier present before is present after.
C3_PollMonotonic ==
    [][PollStep => (Ids(files) \subseteq Ids(files') /\ Len(files') >= Len(files))]_vars

\* After the backfill, a poll has merged a record that arrived during the
\* session in front of the records loaded before it.
C3_Witness ==
    /\ hist.out = "merged"
    /\ pc = "done"
    /\ Len(files) >= 2
    /\ files[1].id > fetchLen
    /\ files[2].id <= fetchLen

\* C4: over the whole session, in every interleaving of the walk with polls, no
\* identifier that was in the loaded set is absent from it later.
C4_LoadedSetOnlyGrows == [][Ids(files) \subseteq Ids(files')]_vars

\* C5: no identifier appears twice in the loaded set, also when the store
\* delivers a record more than once.
C5_NoDuplicateIds ==
    \A i, j \in 1..Len(files) : i # j => files[i].id # files[j].id

\* C6: a poll that follows a poll, with no new remote record between the two
\* requests, leaves the loaded set as it is: same identifiers, same order.
C6_PollIdempotent ==
    [][\A i \in 1..MaxInFlight :
            (PollResolve(i) /\ polls[i].ver = hist.ver) => files' = files]_vars

\* The second of two such polls has been merged into a non-empty set.
C6_Witness == hist.out = "again" /\ files # <<>>

\* C7: getStepVideos(step) is exactly the loaded records that are videos with
\* step.start <= capture time <= step.end, both ends inclusive.
C7_StepVideosExact ==
    (videoFiles.defined /\ step.start # InvalidDate /\ step.end # InvalidDate) =>
        stepVideos = SelectSeq(videoFiles.list, LAMBDA r :
                        /\ r.fileName = Mp4Name
                        /\ r.time \in Times
                        /\ step.start <= r.time
                        /\ r.time <= step.end)

\* A video at exactly step.end is kept while one just after it is dropped.
C7_Witness ==
    /\ videoFiles.defined
    /\ step.start \in Times
    /\ \E i, j \in 1..Len(videoFiles.list) :
        /\ videoFiles.list[i].fileName = Mp4Name
        /\ videoFiles.list[j].fileName = Mp4Name
        /\ videoFiles.list[i].time = step.end
        /\ videoFiles.list[j].time = step.end + 1
        /\ \E k \in 1..Len(stepVideos) : stepVideos[k] = videoFiles.list[i]
        /\ \A k \in 1..Len(stepVideos) : stepVideos[k] # videoFiles.list[j]

\* C8: savePassNote without partId fails before any call to the store: nothing
\* is uploaded and the store is unchanged.
C8_SaveWithoutPartIdFailsFast ==
    [][(ret'.op = "savePassNote" /\ ret'.partId = "") =>
        (ret'.status = "error" /\ ~ret'.called /\ notes' = notes)]_vars

\* A save without partId, on an initialised client, has failed.
C8_Witness ==
    /\ viamClient
    /\ ret.op = "savePassNote"
    /\ ret.partId = ""
    /\ ret.status = "error"

\* C9: a store-level failure during a Notes Store operation reaches the caller
\* as an error; it is never turned into an empty or shortened result.
C9_StoreErrorsPropagate ==
    ret.storeError \in {"query", "payload", "upload"} => ret.status = "error"

Count(seq, x) == Cardinality({i \in 1..Len(seq) : seq[i] = x})
\* The notes of the store that decode and belong to passId.
NotesOf(passId) ==
    LET hit == SelectSeq(notes, LAMBDA b :
                    JsonValid(b) /\ PassIdOf(JsonParse(b)) = passId)
    IN  [i \in 1..Len(hit) |-> JsonParse(hit[i])]

\* C10: fetchPassNotes(passId) returns all the decodable notes of the store with
\* that pass_id and no other note, however many note records the store holds.
C10_FetchPassNotesAllMatches ==
    (ret.op = "fetchPassNotes" /\ ret.status = "ok" /\ ret.storeError = "none") =>
        /\ \A i \in 1..Len(ret.value) : PassIdOf(ret.value[i]) = ret.passId
        /\ \A i \in 1..Len(NotesOf(ret.passId)) :
                Count(ret.value, NotesOf(ret.passId)[i])
                    = Count(NotesOf(ret.passId), NotesOf(ret.passId)[i])

\* C11: the sequence fetchPassNotes returns is ordered newest first: of two notes
\* in it, the earlier one has a created_at greater than or equal to the later's.
C11_FetchPassNotesNewestFirst ==
    (ret.op = "fetchPassNotes" /\ ret.status = "ok") =>
        \A i, j \in 1..Len(ret.value) :
            i < j => CreatedAtOf(ret.value[i]) >= CreatedAtOf(ret.value[j])

\* C12: fetchNotesForPasses returns a mapping with every requested pass id as a
\* key; an id without matching note maps to the empty sequence, and a bucket
\* holds only notes whose pass_id is its key.
C12_EveryRequestedKeyPresent ==
    (ret.op = "fetchNotesForPasses" /\ ret.status = "ok") =>
        /\ DOMAIN ret.value = ret.passId
        /\ \A k \in ret.passId :
            /\ \A i \in 1..Len(ret.value[k]) : PassIdOf(ret.value[k][i]) = k
            /\ NotesOf(k) = <<>> => ret.value[k] = <<>>

\* Both passes were requested; one has notes and the other has none.
C12_Witness ==
    /\ ret.op = "fetchNotesForPasses"
    /\ ret.status = "ok"
    /\ ret.passId = PassIds
    /\ ret.value["p1"] # <<>>
    /\ ret.value["p2"] = <<>>
    /\ NotesOf("p2") = <<>>

\* The notes a batch of records decodes to, for one pass, in batch order.
DecodedOf(batch, passId) ==
    LET hit == SelectSeq(batch, LAMBDA b :
                    JsonValid(b) /\ PassIdOf(JsonParse(b)) = passId)
    IN  [i \in 1..Len(hit) |-> JsonParse(hit[i])]
\* The records of a batch that do not decode.
Corrupt(batch) == {i \in 1..Len(batch) : ~JsonValid(batch[i])}

\* C13: a notes fetch over a batch in which exactly one payload is corrupt
\* returns every note of the batch but the corrupt one, wherever it sits: a
\* decode failure does not stop the records after it, nor fail the call.
C13_DecodeFailureIsolated ==
    /\ (/\ ret.op = "fetchPassNotes"
        /\ viamClient
        /\ ret.storeError = "none"
        /\ Cardinality(Corrupt(NotesQuery(NotesLimit))) = 1) =>
            /\ ret.status = "ok"
            /\ ret.value = DecodedOf(NotesQuery(NotesLimit), ret.passId)
    /\ (/\ ret.op = "fetchNotesForPasses"
        /\ viamClient
        /\ ret.storeError = "none"
        /\ Cardinality(Corrupt(NotesQuery(ManyLimit))) = 1) =>
            /\ ret.status = "ok"
            /\ \A k \in ret.passId :
                    ret.value[k] = DecodedOf(NotesQuery(ManyLimit), k)

\* The corrupt record came first in the batch and the note after it was returned.
C13_Witness ==
    /\ ret.op = "fetchPassNotes"
    /\ ret.storeError = "none"
    /\ Len(NotesQuery(NotesLimit)) = NotesLimit
    /\ Corrupt(NotesQuery(NotesLimit)) = {1}
    /\ Len(ret.value) = NotesLimit - 1

\* C14: of several notes for one pass, the note shown is one with the greatest
\* created_at, in whatever order the notes were fetched or arrived.
C14_LatestNoteWins ==
    initialNotes # <<>> =>
        \E i \in 1..Len(initialNotes) :
            /\ shownText = NoteTextOf(initialNotes[i])
            /\ \A j \in 1..Len(initialNotes) :
                    CreatedAtOf(initialNotes[i]) >= CreatedAtOf(initialNotes[j])

\* The fetch returned the older note first, with another text than the newer
\* one, and the newer one is shown.
C14_Witness ==
    /\ Len(initialNotes) = 2
    /\ CreatedAtOf(initialNotes[1]) < CreatedAtOf(initialNotes[2])
    /\ NoteTextOf(initialNotes[1]) # NoteTextOf(initialNotes[2])
    /\ shownText = NoteTextOf(initialNotes[2])

\* C15: each successful savePassNote appends exactly one new record to the store
\* and changes or deletes no existing record, also for an empty note text, which
\* is accepted, and for updatePassNote, which is a plain save.
C15_SaveAppendsOneRecord ==
    [][\A p \in PassIds, t \in Texts, now \in 0..MaxClock :
        (/\ viamClient
         /\ \/ SavePassNote(p, t, "part-1", now, TRUE)
            \/ UpdatePassNote(p, t, "part-1", now, TRUE)) =>
            /\ ret'.status = "ok"
            /\ Len(notes') = Len(notes) + 1
            /\ \E k \in 1..Len(notes') :
                /\ RemoveAt(notes', k) = notes
                /\ JsonValid(notes'[k])
                /\ PassIdOf(JsonParse(notes'[k])) = p
                /\ NoteTextOf(JsonParse(notes'[k])) = t]_vars

\* updatePassNote has added a note with an empty text to a store that held notes.
C15_Witness ==
    /\ ret.op = "updatePassNote"
    /\ ret.status = "ok"
    /\ saved = 1
    /\ Len(notes) >= 2
    /\ JsonValid(notes[1])
    /\ NoteTextOf(JsonParse(notes[1])) = ""

\* C16: decoding the bytes savePassNote encodes for a note yields a note equal
\* to the original in its four fields, for an empty and a non-empty note_text.
C16_RoundTrip ==
    [][\A p \in PassIds, t \in Texts, now \in 0..MaxClock :
        (viamClient /\ SavePassNote(p, t, "part-1", now, TRUE)) =>
            /\ JsonValid(notes'[1])
            /\ DOMAIN JsonParse(notes'[1]) =
                    {"pass_id", "note_text", "created_at", "created_by"}
            /\ JsonParse(notes'[1])["pass_id"] = p
            /\ JsonParse(notes'[1])["note_text"] = t
            /\ JsonParse(notes'[1])["created_at"] = ToISOString(now)
            /\ GetTime(JsonParse(notes'[1])["created_at"]) = now
            /\ JsonParse(notes'[1])["created_by"] = "web-app"]_vars

\* savePassNote has stored a note with an empty text, and it decodes.
C16_Witness ==
    /\ ret.op = "savePassNote"
    /\ ret.status = "ok"
    /\ saved = 1
    /\ JsonValid(notes[1])
    /\ JsonParse(notes[1])["note_text"] = ""
    /\ JsonParse(notes[1])["created_by"] = "web-app"

\* C17: when a page request of the backfill walk fails, the walk stops and
\* commits nothing: the loaded set is after the failure what it was before, and
\* no page accumulated on the way has reached it, however many there were.
C17_FailedWalkCommitsNothing ==
    [][/\ FetchPageFail => (files' = files /\ pc' = "failed")
       /\ \A d \in 0..MaxDup, endToken \in BOOLEAN :
            (FetchPage(d, endToken) /\ pc' = "fetch") => files' = files]_vars

\* The walk failed after it had accumulated a page, and nothing is loaded.
C17_Witness ==
    /\ pc = "failed"
    /\ fetchLen > 0
    /\ files = <<>>

\* C18: one poll is atomic for the loaded set: its merge adds all the new
\* records of the page in one state update, and a poll whose query fails, like
\* a poll still waiting, leaves the set as it was.
C18_PollAtomic ==
    [][/\ \A i \in 1..MaxInFlight :
            /\ PollResolve(i) => Ids(files') = Ids(files) \cup Ids(polls[i].data)
            /\ PollReject(i) => files' = files
       /\ \A d \in 0..MaxDup : PollStart(d) => files' = files]_vars

\* Before the walk has committed or a record has arrived, one poll has merged
\* several records at once.
C18_Witness ==
    /\ hist.out = "merged"
    /\ arrived = 0
    /\ pc = "fetch"
    /\ Cardinality(Ids(files)) >= 2

\* C19: after a page, the backfill loop stops exactly when the store returned no
\* cursor, or the page is empty, or the capture time of the last record of the
\* page is strictly earlier than T_min; otherwise it asks for the next page with
\* the cursor just received (a last record exactly at T_min does not stop it).
C19_StopsExactlyAtBoundary ==
    [][\A d \in 0..MaxDup, endToken \in BOOLEAN :
        FetchPage(d, endToken) =>
            LET resp == BinaryDataByFilter(SelectSeq(store, BackfillFilter),
                                           BackfillLimit, last, d, endToken)
                oldest == OldestFileTime(resp.data)
                stop == \/ resp.last = NoCursor
                        \/ resp.data = <<>>
                        \/ /\ oldest # NoTime
                           /\ earliestPassTime # InvalidDate
                           /\ oldest < earliestPassTime
            IN  /\ (pc' = "done") <=> stop
                /\ ~stop => (pc' = "fetch" /\ last' = resp.last)]_vars

\* C20: when a poll finds new records, the loaded sequence after it is the new
\* records, in the order the store returned them, followed by the previous
\* sequence unchanged.
C20_NewRecordsPrepended ==
    [][\A i \in 1..MaxInFlight :
        (PollResolve(i) /\ files' # files) =>
            files' = SelectSeq(polls[i].data, LAMBDA f : f.id \notin Ids(files))
                        \o files]_vars

\* After the walk, a poll has put the record that arrived since in front of two
\* records loaded before.
C20_Witness ==
    /\ hist.out = "merged"
    /\ pc = "done"
    /\ arrived = 1
    /\ Len(files) >= 3
    /\ files[1].id = Len(store)
    /\ files[2].id = Len(store) - 1
    /\ files[3].id = Len(store) - 2

\* The number of times an identifier occurs in a sequence of records.
CountId(seq, id) == Cardinality({k \in 1..Len(seq) : seq[k].id = id})

\* C21: when two polls are in flight at the same time and their responses
\* overlap, the merge of each of them, in either order of completion, loses no
\* record of the loaded set and leaves each new record of its response in the
\* set exactly once.
C21_ConcurrentPollsMergeOnce ==
    [][\A i \in 1..MaxInFlight :
        (PollResolve(i) /\ polls[i].overlap) =>
            /\ Ids(files) \subseteq Ids(files')
            /\ \A id \in Ids(polls[i].data) \ Ids(files) :
                    CountId(files', id) = 1]_vars

\* C22: with an empty pass list there is no earliest pass start and the
\* time-boundary stop never fires: the walk ends only on a response without
\* cursor, an empty page, or a page whose oldest record has no capture time, and
\* a walk that ends at the end of the data has loaded the whole history of the
\* store.
C22_NoPassesLoadsWholeHistory ==
    [][/\ LoadPasses(1, TRUE, {}) => earliestPassTime' = InvalidDate
       /\ \A d \in 0..MaxDup, endToken \in BOOLEAN :
            (FetchPage(d, endToken) /\ earliestPassTime = InvalidDate /\ pc' = "done") =>
                LET resp == BinaryDataByFilter(SelectSeq(store, BackfillFilter),
                                               BackfillLimit, last, d, endToken)
                IN  /\ \/ resp.last = NoCursor
                       \/ resp.data = <<>>
                       \/ OldestFileTime(resp.data) = NoTime
                    /\ (resp.last = NoCursor \/ resp.data = <<>>) =>
                            \A r \in FetchTime(fetchLen') : r.id \in Ids(files')]_vars

\* Without passes, the walk has gone past a page whose oldest record carries a
\* capture time and is asking for the next one.
C22_Witness ==
    /\ pc = "fetch"
    /\ earliestPassTime = InvalidDate
    /\ Len(allFiles) >= BackfillLimit
    /\ allFiles[Len(allFiles)].time \in Times
    /\ last # NoCursor

\* The records matching the filter of the poll when the store held v records,
\* newest first.
MatchingAt(v) == SelectSeq(store, LAMBDA r : r.id <= v /\ PollFilter(r))
\* The matching records that arrived after the store held u records, up to v.
ArrivedBetween(u, v) ==
    {MatchingAt(v)[k].id : k \in {n \in 1..Len(MatchingAt(v)) : MatchingAt(v)[n].id > u}}
\* The matching records beyond the newest PollLimit when the store held v records.
BeyondNewest(v) ==
    {MatchingAt(v)[k].id : k \in {n \in 1..Len(MatchingAt(v)) : n > PollLimit}}

\* C23: when at most N (PollLimit) matching records arrived between two
\* consecutive successful polls, all of them are loaded after the later poll;
\* when more arrived, the records beyond the newest N are loaded neither by that
\* poll nor by a later one.
C23_PollWindow ==
    [][\A i \in 1..MaxInFlight :
        PollResolve(i) =>
            /\ (/\ hist.ver >= 0
                /\ Cardinality(ArrivedBetween(hist.ver, polls[i].ver)) <= PollLimit) =>
                    ArrivedBetween(hist.ver, polls[i].ver) \subseteq Ids(files')
            /\ (Ids(files') \ Ids(files)) \cap BeyondNewest(polls[i].ver) = {}
            /\ (hist.ver >= 0 /\ polls[i].ver >= hist.ver) =>
                    (Ids(files') \ Ids(files)) \cap BeyondNewest(hist.ver) = {}]_vars

\* More than PollLimit matching records arrived between two polls that both
\* succeeded, and the oldest of them is not loaded.
C23_Witness ==
    /\ hist.out = "merged"
    /\ polls = <<>>
    /\ hist.ver = Len(store)
    /\ arrived > PollLimit
    /\ \E k \in 1..Len(store) :
        /\ store[k].id = Len(store) - arrived + 1
        /\ PollFilter(store[k])
        /\ store[k].id \notin Ids(files)
        /\ store[k].id \in BeyondNewest(hist.ver)

====
